---------------------------- MODULE Spec2Model ----------------------------
(***************************************************************************)
(* Model of scripts/fingerprint_generator.py: hash_file, log and           *)
(* generate_fingerprint, run against a small file system.                  *)
(*                                                                         *)
(* Byte strings (paths, file contents, digests, lines, artifacts) are      *)
(* sequences of one-character strings.  hashlib's algorithms are stood in  *)
(* for by polynomial hashes of the bytes, with a digest length and         *)
(* parameters of their own per algorithm.                                  *)
(***************************************************************************)
EXTENDS Naturals, Sequences, FiniteSets, Bags, TLC

\* ------------------------------------------------------------------ bounds
MaxRuns == 2
MaxFiles == 2
MaxEvents == 1

\* ------------------------------------------------------- bytes and ordering
\* The characters in use, in ascending byte (ASCII) order.
Alphabet ==
    << "\n", " ", "*", ",", ".", "/",
       "0", "1", "2", "3", "4", "5", "6", "7", "8", "9", ":", "?", "T",
       "[", "]", "_",
       "a", "b", "c", "d", "e", "f", "g", "h", "i", "j", "k", "l", "m",
       "n", "o", "p", "q", "r", "s", "t", "u", "v", "w", "x", "y", "z",
       "{", "}" >>

OrdMap ==
    [ ch \in { Alphabet[i] : i \in 1..Len(Alphabet) } |->
        CHOOSE i \in 1..Len(Alphabet) : Alphabet[i] = ch ]

\* ord(ch), up to an order-preserving renumbering.
Ord(ch) ==
    OrdMap[ch]

\* Python's str comparison s < t (code point order, a proper prefix first).
RECURSIVE StrLess(_, _)
StrLess(s, t) ==
    IF t = << >> THEN FALSE
    ELSE IF s = << >> THEN TRUE
    ELSE IF Head(s) = Head(t) THEN StrLess(Tail(s), Tail(t))
    ELSE Ord(Head(s)) < Ord(Head(t))

\* sorted(files): ascending, by repeatedly taking the least remaining name.
RECURSIVE SortSet(_)
SortSet(S) ==
    IF S = {} THEN << >>
    ELSE LET m == CHOOSE x \in S : \A y \in S \ {x} : StrLess(x, y)
         IN  << m >> \o SortSet(S \ {m})

Sorted(names) ==
    SortSet({ names[i] : i \in 1..Len(names) })

Reverse(s) ==
    [ i \in 1..Len(s) |-> s[Len(s) + 1 - i] ]

\* fnmatch.fnmatch(name, pat) on POSIX: the whole name against the pattern,
\* "*" any run of characters ("/" included), "?" any one character.
RECURSIVE fnmatch(_, _)
fnmatch(name, pat) ==
    IF pat = << >> THEN name = << >>
    ELSE IF Head(pat) = "*"
         THEN fnmatch(name, Tail(pat))
              \/ (name # << >> /\ fnmatch(Tail(name), pat))
    ELSE IF Head(pat) = "?"
         THEN name # << >> /\ fnmatch(Tail(name), Tail(pat))
    ELSE name # << >> /\ Head(name) = Head(pat)
         /\ fnmatch(Tail(name), Tail(pat))

\* str(n) for a non-negative integer.
Digits == << "0", "1", "2", "3", "4", "5", "6", "7", "8", "9" >>

RECURSIVE Str(_)
Str(n) ==
    IF n < 10 THEN << Digits[n + 1] >>
    ELSE Str(n \div 10) \o << Digits[(n % 10) + 1] >>

\* str(x) for the float os.path.getmtime returns (whole seconds here).
FloatStr(t) ==
    Str(t) \o << ".", "0" >>

\* "\n".join(lines)
RECURSIVE Join(_)
Join(lines) ==
    IF lines = << >> THEN << >>
    ELSE IF Len(lines) = 1 THEN lines[1]
    ELSE lines[1] \o << "\n" >> \o Join(Tail(lines))

\* --------------------------------------------------------------- file system
\* A path below the root is a sequence of names; a name is a byte string.
NB == << "b" >>
NA == << "a" >>
NC == << "c" >>
NX == << "x" >>
NY == << "y" >>

\* The user's files: one in the root, one in each of the directories a and c.
UserPaths ==
    { << NB >>, << NA, NX >>, << NC, NY >> }

\* The three output artifacts, opened by name in the working directory.
FileHashesTxt ==
    << "f","i","l","e","_","h","a","s","h","e","s",".","t","x","t" >>
ProjectFingerprintTxt ==
    << "p","r","o","j","e","c","t","_","f","i","n","g","e","r","p","r","i","n","t",
       ".","t","x","t" >>
FingerprintJson ==
    << "f","i","n","g","e","r","p","r","i","n","t",".","j","s","o","n" >>

ArtifactKeys == { "txt", "fp", "json" }

ArtifactName(k) ==
    CASE k = "txt" -> FileHashesTxt
      [] k = "fp" -> ProjectFingerprintTxt
      [] k = "json" -> FingerprintJson

ArtifactKey(name) ==
    CHOOSE k \in ArtifactKeys : ArtifactName(k) = name

\* The bytes of the user's files (fixed; an event may remove or touch a file).
Content(p) ==
    CASE p = << NB >> -> << "h", "i" >>
      [] p = << NA, NX >> -> << "w" >>
      [] p = << NC, NY >> -> << >>

\* The directory arguments: the root of the tree, and a path that is no directory.
RootDir == << "r" >>
MissingDir == << "m" >>

\* The algorithm names: two that hashlib.new knows, one it does not (ValueError).
Known == { "sha256", "sha1" }
Algos == Known \cup { "bogus" }

\* The exclude lists: none, and the patterns "?" and "*x".
NoExclude == << >>
Excludes ==
    { NoExclude, << << "?" >>, << "*", "x" >> >> }

\* Timestamps datetime.fromtimestamp can convert; the others raise.
TimeRange == 0..5
TouchTimes == { 2, 6 }

RawOrders == { "asc", "desc" }

\* An artifact: whether it exists, its bytes, its modification time.
NoArtifacts ==
    [ k \in ArtifactKeys |-> [ exists |-> FALSE, content |-> << >>, mtime |-> 0 ] ]

\* The object dumped to fingerprint.json.
NoDoc == [ file_hashes |-> << >>, combined_hash |-> << >> ]
OldDoc == [ file_hashes |-> << >>, combined_hash |-> << "0", "1", "d" >> ]
NoRun ==
    [ status |-> "none", combined |-> << >>, records |-> << >> ]

VARIABLES
    args,               \* the arguments of generate_fingerprint and the cwd
    tree,               \* the user's files: exists, mtime
    rawOrder,           \* the order in which the file system lists a directory
    artifacts,          \* the three output files in the working directory
    json_doc,           \* the object that was dumped to fingerprint.json
    pc,                 \* position in generate_fingerprint ("idle": not running)
    status,             \* how the last run ended: "none", "ok", "raised"
    runs,               \* runs started so far
    pending,            \* os.walk: directories still to be listed
    curDir,             \* os.walk: the directory yielded last (root)
    files,              \* the rest of sorted(files) of curDir
    file_hash,
    file_size,
    modified_time,
    file_hashes,
    detailed_metadata,
    combined_hash,
    log,                \* what log() printed during the current run
    records,            \* path, size, mtime of each appended file
    hashCalls,          \* paths hash_file was called with in the current run
    opened,             \* paths hash_file opened in the current run
    filtered,           \* paths the exclusion test skipped in the current run
    raisedAt,           \* paths whose try body raised in the current run
    walked,             \* directories os.walk listed in the current run
    prev,               \* the result of the run before the current one
    evPrev,             \* events from the start of the previous run to this one's
    evCur,              \* events since the start of the current run
    nEvents

fsVars == << tree, rawOrder >>
outVars == << artifacts, json_doc >>
walkVars == << pending, curDir, files >>
fileVars == << file_hash, file_size, modified_time >>
listVars == << file_hashes, detailed_metadata, records >>
ghostVars == << hashCalls, opened, filtered, raisedAt, walked >>
histVars == << prev, evPrev >>
evVars == << evCur, nEvents >>
vars ==
    << args, fsVars, outVars, pc, status, runs, walkVars, fileVars, listVars,
       combined_hash, log, ghostVars, histVars, evVars >>

\* ------------------------------------------------------------ path helpers
IsArtifactPath(p) ==
    /\ args.cwd = "root"
    /\ Len(p) = 1
    /\ \E k \in ArtifactKeys : ArtifactName(k) = p[1]

ExistingPaths ==
    { p \in UserPaths : tree[p].exists }
      \cup (IF args.cwd = "root"
            THEN { << ArtifactName(k) >> : k \in { a \in ArtifactKeys : artifacts[a].exists } }
            ELSE {})

FileExists(p) ==
    p \in ExistingPaths

\* json.dump of {"file_hashes": [...], "combined_hash": ...}
RECURSIVE DumpEntries(_)
DumpEntries(ms) ==
    IF ms = << >> THEN << >>
    ELSE << "{" >> \o ms[1].file_path \o << "," >> \o ms[1].hash \o << "," >>
           \o Str(ms[1].size) \o << "," >> \o ms[1].modified_time \o << "}" >>
           \o DumpEntries(Tail(ms))

Dump(doc) ==
    << "{", "[" >> \o DumpEntries(doc.file_hashes) \o << "]", "," >>
      \o doc.combined_hash \o << "}" >>

\* The bytes of a file.
FileContent(p) ==
    IF p \in UserPaths THEN Content(p)
    ELSE artifacts[ArtifactKey(p[1])].content

FileMtime(p) ==
    IF p \in UserPaths THEN tree[p].mtime ELSE artifacts[ArtifactKey(p[1])].mtime

IsPrefix(d, p) ==
    Len(d) <= Len(p) /\ SubSeq(p, 1, Len(d)) = d

\* os.scandir(d): the regular files and the sub-directories of d, each in the
\* file system's own order.
FilesAt(d) ==
    { p[Len(p)] : p \in { q \in ExistingPaths : Len(q) = Len(d) + 1 /\ IsPrefix(d, q) } }

DirsAt(d) ==
    { p[Len(d) + 1] : p \in { q \in ExistingPaths : Len(q) > Len(d) + 1 /\ IsPrefix(d, q) } }

RawList(S) ==
    IF rawOrder = "asc" THEN SortSet(S) ELSE Reverse(SortSet(S))

\* os.path.relpath(os.path.join(root, file), directory), "/" between the names.
RECURSIVE RelPath(_)
RelPath(p) ==
    IF Len(p) = 1 THEN p[1]
    ELSE p[1] \o << "/" >> \o RelPath(Tail(p))

\* os.path.join(root, file): the directory argument in front.
FilePath(p) ==
    args.directory \o << "/" >> \o RelPath(p)

IsDir(d) ==
    d = RootDir

\* hashlib.new(algo): the algorithm's parameters, one (multiplier, modulus)
\* pair per four hex characters of its digest.
HashParams(algo) ==
    IF algo = "sha1"
    THEN << << 131, 46337 >>, << 137, 46327 >> >>
    ELSE << << 139, 46309 >>, << 149, 46307 >>, << 151, 46301 >> >>

\* hasher.update over all the bytes of data (whatever the chunking): every
\* byte enters with a weight that depends on its position.
Update(data, bm) ==
    IF data = << >> THEN bm[1]
    ELSE (bm[1] + Len(data)
            + BagCardinality([ i \in 1..Len(data) |->
                Ord(data[i]) * (((i * i * bm[1] + i) % 4999) + 1) ])) % bm[2]

HexDigits ==
    << "0", "1", "2", "3", "4", "5", "6", "7", "8", "9",
       "a", "b", "c", "d", "e", "f" >>

Hex4(n) ==
    << HexDigits[(n \div 4096) + 1], HexDigits[((n \div 256) % 16) + 1],
       HexDigits[((n \div 16) % 16) + 1], HexDigits[(n % 16) + 1] >>

RECURSIVE HexAll(_, _)
HexAll(data, params) ==
    IF params = << >> THEN << >>
    ELSE Hex4(Update(data, Head(params))) \o HexAll(data, Tail(params))

\* hashlib.new(algo, data).hexdigest(): lowercase hex, its length set by algo.
Hex(algo, data) ==
    HexAll(data, HashParams(algo))

\* datetime.fromtimestamp(t).isoformat()
Iso(t) ==
    << "T" >> \o Str(t) \o << ":", "0", "0" >>

Convertible(t) ==
    t \in TimeRange

\* Mutant of Line: the text record holds the digest and the path only.
LineContentOnly(h, rel, size, mt) ==
    h \o << " ", " " >> \o rel

\* line 63: f"{file_hash}  {relative_path}  {file_size}  {modified_time}"
Line(h, rel, size, mt) ==
    h \o << " ", " " >> \o rel \o << " ", " " >> \o Str(size)
      \o << " ", " " >> \o FloatStr(mt)

\* lines 56-61: the metadata entry
Metadata(h, rel, size, mt) ==
    [ file_path |-> rel, hash |-> h, size |-> size, modified_time |-> Iso(mt) ]

\* Mutant of IsExcluded: all(...) in place of any(...).
IsExcludedAll(rel, exclude) ==
    /\ exclude # << >>
    /\ \A i \in 1..Len(exclude) : fnmatch(rel, exclude[i])

\* line 45: any(fnmatch(relative_path, pattern) for pattern in exclude)
IsExcluded(rel, exclude) ==
    \E i \in 1..Len(exclude) : fnmatch(rel, exclude[i])

\* ------------------------------------------------------------------- start
NoTree ==
    [ p \in UserPaths |-> [ exists |-> FALSE, mtime |-> 1 ] ]

Trees ==
    { [ p \in UserPaths |-> [ NoTree[p] EXCEPT !.exists = (p \in S) ] ] :
        S \in { T \in SUBSET UserPaths : Cardinality(T) <= MaxFiles } }

\* The calls: every combination of the arguments that the code can tell
\* apart (verbose is read only when a pattern matched, line 46; nothing but
\* the directory is read when it is no directory, line 32).
ArgSets ==
    { a \in [ directory : { RootDir, MissingDir }, exclude : Excludes,
              verbose : BOOLEAN, algo : Algos, cwd : { "outside", "root" } ] :
        /\ a.exclude = NoExclude => ~a.verbose
        /\ a.directory = MissingDir =>
              a.exclude = NoExclude /\ a.algo = "sha256" }

\* The calls that raise: the directory is none, or hashlib does not know
\* the algorithm.
Fatal(a) ==
    a.directory = MissingDir \/ a.algo \notin Known

\* Artifacts an earlier run left in the working directory (for the calls
\* that raise; a call that succeeds leaves its own to the next run).
OldArtifacts ==
    [ k \in ArtifactKeys |->
        [ exists |-> TRUE,
          content |-> IF k = "json" THEN Dump(OldDoc) ELSE << "0", "1", "d" >>,
          mtime |-> 0 ] ]

Init ==
    /\ args \in ArgSets
    /\ tree \in Trees
    /\ rawOrder \in RawOrders
    /\ json_doc \in IF Fatal(args) THEN { NoDoc, OldDoc } ELSE { NoDoc }
    /\ artifacts = IF json_doc = NoDoc THEN NoArtifacts ELSE OldArtifacts
    /\ pc = "idle"
    /\ status = "none"
    /\ runs = 0
    /\ pending = << >>
    /\ curDir = << >>
    /\ files = << >>
    /\ file_hash = << >>
    /\ file_size = 0
    /\ modified_time = 0
    /\ file_hashes = << >>
    /\ detailed_metadata = << >>
    /\ combined_hash = << >>
    /\ log = << >>
    /\ records = << >>
    /\ hashCalls = {}
    /\ opened = {}
    /\ filtered = {}
    /\ raisedAt = << >>
    /\ walked = << >>
    /\ prev = NoRun
    /\ evPrev = {}
    /\ evCur = {}
    /\ nEvents = 0

\* ------------------------------------------------------ generate_fingerprint
\* The file the inner loop is at: os.path.join(root, file).
CurFile ==
    curDir \o << Head(files) >>

\* lines 25-37: a call of generate_fingerprint; the isdir test, then the locals.
StartRun ==
    /\ pc = "idle"
    /\ runs < MaxRuns
    /\ runs' = runs + 1
    /\ prev' = [ status |-> status, combined |-> combined_hash,
                 records |-> records ]
    /\ evPrev' = evCur
    /\ evCur' = {}
    /\ file_hashes' = << >>
    /\ detailed_metadata' = << >>
    /\ records' = << >>
    /\ combined_hash' = << >>
    /\ log' = << >>
    /\ hashCalls' = {}
    /\ opened' = {}
    /\ filtered' = {}
    /\ raisedAt' = << >>
    /\ walked' = << >>
    /\ file_hash' = << >>
    /\ file_size' = 0
    /\ modified_time' = 0
    /\ curDir' = << >>
    /\ files' = << >>
    /\ IF IsDir(args.directory)
       THEN /\ pc' = "walk"
            /\ status' = "running"
            /\ pending' = << << >> >>
       ELSE /\ pc' = "idle"
            /\ status' = "raised"
            /\ pending' = << >>
    /\ UNCHANGED << args, fsVars, outVars, nEvents >>

\* line 39: os.walk yields the next directory, top-down: its files, and its
\* sub-directories (visited next, in the order listed).
\* line 40: sorted(files).
WalkNext ==
    /\ pc = "walk"
    /\ files = << >>
    /\ IF pending = << >>
       THEN /\ pc' = "combine"
            /\ UNCHANGED << walkVars, walked >>
       ELSE LET d == Head(pending)
                subdirs == RawList(DirsAt(d))
            IN  /\ curDir' = d
                /\ files' = Sorted(RawList(FilesAt(d)))
                /\ pending' = [ i \in 1..Len(subdirs) |-> d \o << subdirs[i] >> ]
                                \o Tail(pending)
                /\ walked' = Append(walked, d)
                /\ pc' = "walk"
    /\ UNCHANGED << args, fsVars, outVars, status, runs, fileVars, listVars,
                    combined_hash, log, hashCalls, opened, filtered, raisedAt,
                    histVars, evVars >>

\* lines 41-48: the relative path and the exclusion test.
FilterFile ==
    /\ pc = "walk"
    /\ files # << >>
    /\ IF IsExcluded(RelPath(CurFile), args.exclude)
       THEN /\ log' = IF args.verbose
                      THEN Append(log, [ kind |-> "excluding",
                                         path |-> RelPath(CurFile),
                                         cause |-> "" ])
                      ELSE log
            /\ filtered' = filtered \cup { CurFile }
            /\ files' = Tail(files)
            /\ pc' = "walk"
       ELSE /\ pc' = "hash"
            /\ UNCHANGED << log, filtered, files >>
    /\ UNCHANGED << args, fsVars, outVars, status, runs, pending, curDir,
                    fileVars, listVars, combined_hash, hashCalls, opened,
                    raisedAt, walked, histVars, evVars >>

\* Mutant of Except: the error is logged and raised again.
ExceptReraise(cause) ==
    /\ log' = Append(log, [ kind |-> "error", path |-> FilePath(CurFile),
                            cause |-> cause ])
    /\ raisedAt' = Append(raisedAt, CurFile)
    /\ files' = files
    /\ pc' = "idle"
    /\ status' = "raised"

\* lines 64-66: except Exception: log the error, continue with the next file.
Except(cause) ==
    /\ log' = Append(log, [ kind |-> "error", path |-> FilePath(CurFile),
                            cause |-> cause ])
    /\ raisedAt' = Append(raisedAt, CurFile)
    /\ files' = Tail(files)
    /\ pc' = "walk"
    /\ status' = status

\* line 51 and hash_file (lines 11-17): hashlib.new, open, read, hexdigest.
HashFile ==
    /\ pc = "hash"
    /\ hashCalls' = hashCalls \cup { CurFile }
    /\ IF args.algo = "bogus"
       THEN Except("ValueError") /\ UNCHANGED << opened, file_hash >>
       ELSE IF ~FileExists(CurFile)
       THEN Except("OSError") /\ UNCHANGED << opened, file_hash >>
       ELSE /\ opened' = opened \cup { CurFile }
            /\ file_hash' = Hex(args.algo, FileContent(CurFile))
            /\ pc' = "size"
            /\ UNCHANGED << log, raisedAt, files, status >>
    /\ UNCHANGED << args, fsVars, outVars, runs, pending, curDir, file_size,
                    modified_time, listVars, combined_hash, filtered, walked,
                    histVars, evVars >>

\* line 52: os.path.getsize
GetSize ==
    /\ pc = "size"
    /\ IF FileExists(CurFile)
       THEN /\ file_size' = Len(FileContent(CurFile))
            /\ pc' = "mtime"
            /\ UNCHANGED << log, raisedAt, files, status >>
       ELSE Except("OSError") /\ UNCHANGED file_size
    /\ UNCHANGED << args, fsVars, outVars, runs, pending, curDir, file_hash,
                    modified_time, listVars, combined_hash, hashCalls, opened,
                    filtered, walked, histVars, evVars >>

\* line 53: os.path.getmtime
GetMtime ==
    /\ pc = "mtime"
    /\ IF FileExists(CurFile)
       THEN /\ modified_time' = FileMtime(CurFile)
            /\ pc' = "append"
            /\ UNCHANGED << log, raisedAt, files, status >>
       ELSE Except("OSError") /\ UNCHANGED modified_time
    /\ UNCHANGED << args, fsVars, outVars, runs, pending, curDir, file_hash,
                    file_size, listVars, combined_hash, hashCalls, opened,
                    filtered, walked, histVars, evVars >>

\* Mutant of AppendRecords: the text record is appended first, before the
\* metadata entry is built.
AppendRecordsLineFirst ==
    /\ pc = "append"
    /\ file_hashes' =
         Append(file_hashes,
                Line(file_hash, RelPath(CurFile), file_size, modified_time))
    /\ IF Convertible(modified_time)
       THEN /\ detailed_metadata' =
                 Append(detailed_metadata,
                        Metadata(file_hash, RelPath(CurFile), file_size, modified_time))
            /\ records' = Append(records, [ path |-> CurFile, size |-> file_size,
                                            mtime |-> modified_time ])
            /\ files' = Tail(files)
            /\ pc' = "walk"
            /\ UNCHANGED << log, raisedAt, status >>
       ELSE Except("ValueError") /\ UNCHANGED << detailed_metadata, records >>
    /\ UNCHANGED << args, fsVars, outVars, runs, pending, curDir, fileVars,
                    combined_hash, hashCalls, opened, filtered, walked,
                    histVars, evVars >>

\* lines 56-63: the metadata entry is built (fromtimestamp may raise) and
\* appended, then the text record is appended.
AppendRecords ==
    /\ pc = "append"
    /\ IF Convertible(modified_time)
       THEN /\ detailed_metadata' =
                 Append(detailed_metadata,
                        Metadata(file_hash, RelPath(CurFile), file_size, modified_time))
            /\ file_hashes' =
                 Append(file_hashes,
                        Line(file_hash, RelPath(CurFile), file_size, modified_time))
            /\ records' = Append(records, [ path |-> CurFile, size |-> file_size,
                                            mtime |-> modified_time ])
            /\ files' = Tail(files)
            /\ pc' = "walk"
            /\ UNCHANGED << log, raisedAt, status >>
       ELSE Except("ValueError") /\ UNCHANGED listVars
    /\ UNCHANGED << args, fsVars, outVars, runs, pending, curDir, fileVars,
                    combined_hash, hashCalls, opened, filtered, walked,
                    histVars, evVars >>

\* line 69: the bytes that are hashed into the combined fingerprint
CombinedInput(lines) ==
    Join(lines)

\* Mutant of ListingText: every record ends with a newline.
ListingTextTrailing(lines) ==
    IF lines = << >> THEN << >> ELSE Join(lines) \o << "\n" >>

\* line 73: the text written to file_hashes.txt
ListingText(lines) ==
    Join(lines)

WriteArtifact(k, text) ==
    artifacts' = [ artifacts EXCEPT ![k] =
                     [ exists |-> TRUE, content |-> text, mtime |-> runs ] ]

\* Mutant of Combine: file_hashes.txt is opened for writing before the
\* combined fingerprint is computed.
CombineAfterOpen ==
    /\ pc = "combine"
    /\ WriteArtifact("txt", << >>)
    /\ IF args.algo \in Known
       THEN /\ combined_hash' = Hex(args.algo, CombinedInput(file_hashes))
            /\ pc' = "write_hashes"
            /\ UNCHANGED status
       ELSE /\ status' = "raised"
            /\ pc' = "idle"
            /\ UNCHANGED combined_hash
    /\ UNCHANGED << args, fsVars, json_doc, runs, walkVars, fileVars, listVars,
                    log, ghostVars, histVars, evVars >>

\* line 69: hashlib.new(algo, data).hexdigest(); raises ValueError for an
\* algorithm hashlib does not know.
Combine ==
    /\ pc = "combine"
    /\ IF args.algo \in Known
       THEN /\ combined_hash' = Hex(args.algo, CombinedInput(file_hashes))
            /\ pc' = "write_hashes"
            /\ UNCHANGED status
       ELSE /\ status' = "raised"
            /\ pc' = "idle"
            /\ UNCHANGED combined_hash
    /\ UNCHANGED << args, fsVars, outVars, runs, walkVars, fileVars, listVars,
                    log, ghostVars, histVars, evVars >>

\* lines 72-73
WriteHashes ==
    /\ pc = "write_hashes"
    /\ WriteArtifact("txt", ListingText(file_hashes))
    /\ pc' = "write_fingerprint"
    /\ UNCHANGED << args, fsVars, json_doc, status, runs, walkVars, fileVars,
                    listVars, combined_hash, log, ghostVars, histVars, evVars >>

\* lines 74-75
WriteFingerprint ==
    /\ pc = "write_fingerprint"
    /\ WriteArtifact("fp", combined_hash)
    /\ pc' = "write_json"
    /\ UNCHANGED << args, fsVars, json_doc, status, runs, walkVars, fileVars,
                    listVars, combined_hash, log, ghostVars, histVars, evVars >>

\* lines 78-82: json.dump, then the two closing log lines (the second prints
\* the fingerprint), and the function returns.
WriteJson ==
    /\ pc = "write_json"
    /\ json_doc' = [ file_hashes |-> detailed_metadata,
                     combined_hash |-> combined_hash ]
    /\ WriteArtifact("json", Dump(json_doc'))
    /\ log' = log \o << [ kind |-> "info", path |-> << >>, cause |-> "complete" ],
                        [ kind |-> "info", path |-> combined_hash,
                          cause |-> "fingerprint" ] >>
    /\ status' = "ok"
    /\ pc' = "idle"
    /\ UNCHANGED << args, fsVars, runs, walkVars, fileVars, listVars,
                    combined_hash, ghostVars, histVars, evVars >>

\* ------------------------------------------------------------ environment
\* What happens to the tree from outside: between two runs, or to the file
\* the inner loop is working on.
Event(kind, p) ==
    /\ nEvents < MaxEvents
    /\ nEvents' = nEvents + 1
    /\ evCur' = evCur \cup { [ kind |-> kind, path |-> p ] }

Between ==
    pc = "idle" /\ 0 < runs /\ runs < MaxRuns

\* A file is deleted.
Vanish(p) ==
    /\ tree[p].exists
    /\ Between \/ (pc \in { "hash", "size", "mtime" } /\ p = CurFile)
    /\ Event("vanish", p)
    /\ tree' = [ tree EXCEPT ![p].exists = FALSE ]
    /\ UNCHANGED << args, rawOrder, outVars, pc, status, runs, walkVars,
                    fileVars, listVars, combined_hash, log, ghostVars, histVars >>

\* A file's modification time is set, its content left alone.
Touch(p, t) ==
    /\ tree[p].exists /\ tree[p].mtime # t
    /\ Between
    /\ Event("touch", p)
    /\ tree' = [ tree EXCEPT ![p].mtime = t ]
    /\ UNCHANGED << args, rawOrder, outVars, pc, status, runs, walkVars,
                    fileVars, listVars, combined_hash, log, ghostVars, histVars >>

\* The file system lists its directories in another order.
Reorder(o) ==
    /\ o # rawOrder
    /\ Between
    /\ Event("reorder", << >>)
    /\ rawOrder' = o
    /\ UNCHANGED << args, tree, outVars, pc, status, runs, walkVars,
                    fileVars, listVars, combined_hash, log, ghostVars, histVars >>

Next ==
    \/ StartRun
    \/ WalkNext
    \/ FilterFile
    \/ HashFile
    \/ GetSize
    \/ GetMtime
    \/ AppendRecords
    \/ Combine
    \/ WriteHashes
    \/ WriteFingerprint
    \/ WriteJson
    \/ \E p \in UserPaths : Vanish(p)
    \/ \E p \in UserPaths, t \in TouchTimes : Touch(p, t)
    \/ \E o \in RawOrders : Reorder(o)

Spec == Init /\ [][Next]_vars

\* ------------------------------------------------------------------ claims
\* A run has returned or raised.
Done ==
    pc = "idle" /\ runs > 0

RunOk ==
    Done /\ status = "ok"

\* Two runs in a row have returned normally.
TwoOk ==
    RunOk /\ prev.status = "ok"

\* What happened to the tree since the earlier of the two runs began.
Events ==
    evPrev \cup evCur

\* The path matches one of the patterns the caller supplied.
Matches(rel) ==
    \E i \in 1..Len(args.exclude) : fnmatch(rel, args.exclude[i])

StartsWith(text, pre) ==
    Len(text) >= Len(pre) /\ SubSeq(text, 1, Len(pre)) = pre

Newlines(text) ==
    { i \in 1..Len(text) : text[i] = "\n" }

\* The lines of a text whose lines are separated by "\n".
RECURSIVE SplitLines(_)
SplitLines(text) ==
    IF text = << >> THEN << >>
    ELSE IF Newlines(text) = {} THEN << text >>
    ELSE LET i == CHOOSE n \in Newlines(text) : \A m \in Newlines(text) : n <= m
         IN  << SubSeq(text, 1, i - 1) >> \o SplitLines(SubSeq(text, i + 1, Len(text)))

\* The second field of a line of file_hashes.txt: after the digest and two
\* spaces, up to the next space.
PathField(line) ==
    LET rest == SubSeq(line, Len(Hex(args.algo, << >>)) + 3, Len(line))
        sp == CHOOSE n \in 1..Len(rest) :
                rest[n] = " " /\ \A m \in 1..(n - 1) : rest[m] # " "
    IN  SubSeq(rest, 1, sp - 1)

ListingLines ==
    SplitLines(artifacts["txt"].content)

ErrorsLogged ==
    SelectSeq(log, LAMBDA e : e.kind = "error")

RecordPaths ==
    { records[i].path : i \in 1..Len(records) }

\* C1: for a fixed tree, exclusion set and algorithm, the combined digest is
\* the same whatever the order in which the file system lists directories and
\* files: two runs on an untouched tree, between which only the listing order
\* changed, give the same combined digest.
C1_OrderIndependent ==
    (TwoOk /\ args.cwd = "outside" /\ \A e \in Events : e.kind = "reorder")
      => combined_hash = prev.combined

\* C2: after every successful run the lines of file_hashes.txt, and the
\* records hashed into the combined digest, are in ascending byte-wise order
\* of the relative path.
C2_ListingSorted ==
    RunOk =>
      /\ \A i, j \in 1..Len(records) :
           i < j => StrLess(RelPath(records[i].path), RelPath(records[j].path))
      /\ \A i, j \in 1..Len(ListingLines) :
           i < j => StrLess(PathField(ListingLines[i]), PathField(ListingLines[j]))

\* C3: a file whose relative path matches a pattern is never passed to
\* hash_file nor opened, has no record in the listing or in fingerprint.json,
\* and the combined digest is the one of the tree without it; a file that
\* matches no pattern is never dropped by the filter.
C3_Exclusion ==
    /\ \A p \in hashCalls \cup opened : ~Matches(RelPath(p))
    /\ \A p \in RecordPaths : ~Matches(RelPath(p))
    /\ \A i \in 1..Len(json_doc.file_hashes) :
         ~Matches(json_doc.file_hashes[i].file_path)
    /\ RunOk => \A i \in 1..Len(ListingLines) : ~Matches(PathField(ListingLines[i]))
    /\ \A p \in filtered : Matches(RelPath(p))
    /\ (/\ TwoOk
        /\ args.cwd = "outside"
        /\ \A e \in Events : e.kind = "vanish" /\ Matches(RelPath(e.path)))
         => combined_hash = prev.combined

\* C3 witness: a matching file was removed between two successful runs that
\* both retained other files.
C3_Witness ==
    /\ TwoOk
    /\ args.cwd = "outside"
    /\ evPrev # {}
    /\ \A e \in Events : e.kind = "vanish" /\ Matches(RelPath(e.path))
    /\ Len(records) > 0

\* C4: when exactly one of the retained files fails while it is processed
\* (it became unreadable or vanished), the run still returns normally, writes
\* the three artifacts, the listing and the metadata cover exactly the other
\* files, and exactly one error is logged, naming the failing file.
C4_PartialFailure ==
    (Done /\ args.algo \in Known /\ Len(raisedAt) = 1) =>
      /\ status = "ok"
      /\ \A k \in ArtifactKeys : artifacts[k].exists /\ artifacts[k].mtime = runs
      /\ RecordPaths = hashCalls \ { raisedAt[1] }
      /\ Len(records) = Cardinality(hashCalls) - 1
      /\ Len(ListingLines) = Cardinality(hashCalls) - 1
      /\ Len(json_doc.file_hashes) = Cardinality(hashCalls) - 1
      /\ Len(ErrorsLogged) = 1
      /\ ErrorsLogged[1].path = args.directory \o << "/" >> \o RelPath(raisedAt[1])

\* C4 witness: a run over at least two retained files, one of which failed.
C4_Witness ==
    /\ Done
    /\ args.algo \in Known
    /\ Len(raisedAt) = 1
    /\ Cardinality(hashCalls) >= 2

\* C5: a call with a fatal condition (no such directory, or an algorithm
\* hashlib does not know) raises, and no step of it creates, truncates or
\* modifies an artifact.
C5_FatalLeavesArtifacts ==
    /\ [](Fatal(args) /\ Done => status = "raised")
    /\ [][Fatal(args) => artifacts' = artifacts /\ json_doc' = json_doc]_vars

\* C5 witness: a call with an unknown algorithm has walked the tree and
\* raised, and the artifacts of an earlier run are as they were.
C5_Witness ==
    /\ Done
    /\ status = "raised"
    /\ args.algo = "bogus"
    /\ hashCalls # {}
    /\ json_doc = OldDoc
    /\ artifacts = OldArtifacts

\* C6: an unsupported algorithm is rejected before traversal begins: no
\* directory is walked, no file is passed to hash_file or opened, and no
\* per-file message is logged.
C6_RejectedBeforeTraversal ==
    args.algo \notin Known =>
      walked = << >> /\ hashCalls = {} /\ opened = {} /\ log = << >>

\* C7: two consecutive runs with the same arguments and no outside change of
\* the tree give the same combined digest, whatever the working directory,
\* and the second run reads nothing the first one wrote.
C7_Deterministic ==
    (TwoOk /\ Events = {}) =>
      /\ combined_hash = prev.combined
      /\ \A p \in opened : ~IsArtifactPath(p)

\* C8 (as claimed): the combined digest depends only on the (digest, path)
\* pairs: when nothing but modification times of retained files changed
\* between two runs, the combined digest is the same.
C8_ContentOnly ==
    (/\ TwoOk
     /\ args.cwd = "outside"
     /\ \A e \in Events : e.kind = "touch"
     /\ raisedAt = << >>)
      => combined_hash = prev.combined

\* The line of file_hashes.txt for a metadata entry and the size and time
\* read for it: four fields, two spaces between them.
FourFields(m, r) ==
    m.hash \o << " ", " " >> \o m.file_path \o << " ", " " >> \o Str(r.size)
      \o << " ", " " >> \o FloatStr(r.mtime)

SamePaths(rs, qs) ==
    /\ Len(rs) = Len(qs)
    /\ \A i \in 1..Len(rs) : rs[i].path = qs[i].path

\* C8 (amended): the combined digest is the hash of the lines (digest, path,
\* size, modification time) of the retained files in the order processed:
\* size and time are in file_hashes.txt as well as in fingerprint.json, and a
\* changed modification time of a retained file changes the combined digest.
C8_MetadataHashed ==
    /\ RunOk =>
         /\ Len(ListingLines) = Len(records)
         /\ Len(json_doc.file_hashes) = Len(records)
         /\ \A i \in 1..Len(records) :
              ListingLines[i] = FourFields(json_doc.file_hashes[i], records[i])
         /\ combined_hash = Hex(args.algo, artifacts["txt"].content)
    /\ (/\ TwoOk
        /\ args.cwd = "outside"
        /\ \A e \in Events : e.kind = "touch"
        /\ SamePaths(records, prev.records)
        /\ records # prev.records)
         => combined_hash # prev.combined

\* C8 witness: a retained file was touched between two successful runs that
\* processed the same files.
C8_Witness ==
    /\ TwoOk
    /\ args.cwd = "outside"
    /\ Events # {}
    /\ \A e \in Events : e.kind = "touch"
    /\ SamePaths(records, prev.records)
    /\ records # prev.records
    /\ Len(records) >= 1

\* C9: after a successful run project_fingerprint.txt holds the hash, under
\* the algorithm used for the files, of the exact text of file_hashes.txt
\* (records joined by newline, none at the end; the hash of the empty string
\* when no file is retained), and combined_hash of fingerprint.json is equal.
C9_ArtifactsConsistent ==
    RunOk =>
      /\ \A k \in ArtifactKeys : artifacts[k].exists /\ artifacts[k].mtime = runs
      /\ artifacts["fp"].content = Hex(args.algo, artifacts["txt"].content)
      /\ json_doc.combined_hash = artifacts["fp"].content
      /\ \A i \in 1..Len(records) :
           records[i].path \in UserPaths =>
             json_doc.file_hashes[i].hash = Hex(args.algo, Content(records[i].path))
      /\ records = << >> =>
           /\ artifacts["txt"].content = << >>
           /\ artifacts["fp"].content = Hex(args.algo, << >>)
      /\ records # << >> =>
           /\ artifacts["txt"].content[Len(artifacts["txt"].content)] # "\n"
           /\ Cardinality(Newlines(artifacts["txt"].content)) = Len(records) - 1

\* C9 witness: a successful sha1 run over two retained files.
C9_Witness ==
    RunOk /\ args.algo = "sha1" /\ Len(records) >= 2

\* C10: at every point the text records and the metadata entries are equally
\* many and the i-th of each carry the same path and digest; a file whose
\* processing failed is in neither list; so file_hashes.txt and the
\* file_hashes array of fingerprint.json list the same files in the same order.
C10_RecordAtomicity ==
    /\ Len(file_hashes) = Len(detailed_metadata)
    /\ \A i \in 1..Len(detailed_metadata) :
         StartsWith(file_hashes[i],
                    detailed_metadata[i].hash \o << " ", " " >>
                      \o detailed_metadata[i].file_path \o << " ", " " >>)
    /\ \A j \in 1..Len(raisedAt) :
         \A i \in 1..Len(detailed_metadata) :
           detailed_metadata[i].file_path # RelPath(raisedAt[j])
    /\ RunOk =>
         /\ Len(ListingLines) = Len(json_doc.file_hashes)
         /\ \A i \in 1..Len(json_doc.file_hashes) :
              StartsWith(ListingLines[i],
                         json_doc.file_hashes[i].hash \o << " ", " " >>
                           \o json_doc.file_hashes[i].file_path \o << " ", " " >>)

\* C10 witness: a run in which the timestamp conversion failed for one file
\* and another file was recorded.
C10_Witness ==
    /\ RunOk
    /\ Len(records) >= 1
    /\ \E i \in 1..Len(log) : log[i].kind = "error" /\ log[i].cause = "ValueError"
=============================================================================
